---- MODULE Spec2Model ----
(***************************************************************************)
(* Todo API backend: the six task operations of api/routes/tasks.py behind *)
(* the JWT gate of api/middleware/auth.py, over the tasks table of         *)
(* models/task.py.                                                         *)
(*                                                                         *)
(* One request is one action: dependency resolution (get_current_user),    *)
(* body validation (the pydantic schema of the handler's task_data         *)
(* parameter), then the handler body with every datastore statement it     *)
(* issues.  The clock is the value datetime.utcnow() returns; it never     *)
(* runs backwards and every datastore round trip takes at least one tick.  *)
(*                                                                         *)
(* RaceSpec serves PUT, PATCH and DELETE one await at a time, so that the  *)
(* statements of concurrent requests interleave; JwksSpec drives the key   *)
(* set cache of services/jwks.py on its own timer.                         *)
(***************************************************************************)
EXTENDS Integers, Sequences, FiniteSets, TLC

\* ------------------------------------------------------------------ bounds
\* Rows the table may hold over a run (ids are never reused).
MaxTasks == 2
\* Last clock value at which a request may start a datastore round trip.
MaxClock == 5

\* Last timer value the key set service is called at.
MaxMonotonic == 7202

\* The same two bounds for the specification of listing and deleting.
MaxListed == 3
MaxListClock == 7
\* Concurrent requests: the workers, the ids issued and the clock
MaxWorkers == 2
MaxRaceTasks == 1
MaxRaceClock == 4

\* ------------------------------------------------------- program constants
HTTP_200_OK == 200
HTTP_201_CREATED == 201
HTTP_204_NO_CONTENT == 204
HTTP_401_UNAUTHORIZED == 401
HTTP_403_FORBIDDEN == 403
HTTP_404_NOT_FOUND == 404
HTTP_500_INTERNAL_SERVER_ERROR == 500
\* No exception handler for RequestValidationError is registered on the app,
\* so a body that fails its schema is answered by the framework default.
HTTP_422_UNPROCESSABLE_ENTITY == 422
\* The status the route docstrings announce for a validation error
HTTP_400_BAD_REQUEST == 400
\* jwt.decode(..., leeway=30)
LEEWAY == 30
\* Field(max_length=500) / Field(max_length=5000), Field(min_length=1)
TITLE_MAX_LENGTH == 500
DESCRIPTION_MAX_LENGTH == 5000
TITLE_MIN_LENGTH == 1

\* ------------------------------------------------------------ JSON values
\* A value is a tagged record, so that values of different JSON types can be
\* compared.  "unset" is a key the body does not carry.
Unset == [k |-> "unset", v |-> 0]
Null == [k |-> "null", v |-> 0]
Bool(b) == [k |-> "bool", v |-> b]
Txt(s) == [k |-> "txt", v |-> s]
Date(d) == [k |-> "date", v |-> d]
\* A string of `lead` whitespace characters, `core` characters that begin and
\* end with a non-whitespace character, and `trail` whitespace characters.
Str(lead, core, trail) == [k |-> "str", v |-> [lead |-> lead, core |-> core, trail |-> trail]]

IsStr(x) == x.k = "str"
StrLen(x) == x.v.lead + x.v.core + x.v.trail
\* str.strip()
Strip(x) == Str(0, x.v.core, 0)
\* bool(str): the empty string is falsy
Truthy(x) == StrLen(x) > 0

\* str.lower() on the words the requests of this model carry
Lower(s) ==
  CASE s \in {"Bearer", "BEARER", "bearer"} -> "bearer"
    [] s \in {"Basic", "basic"} -> "basic"
    [] s \in {"LOW", "Low", "low"} -> "low"
    [] s \in {"MEDIUM", "Medium", "medium"} -> "medium"
    [] s \in {"HIGH", "High", "high"} -> "high"
    [] OTHER -> s

\* ---------------------------------------------------------------- responses
NoHeaders == {}
WWWAuthenticate == {<<"WWW-Authenticate", "Bearer">>}

\* raise HTTPException(status_code, detail, headers)
HTTPException(status, detail, headers) ==
  [status |-> status, kind |-> "error", detail |-> detail, headers |-> headers, data |-> <<>>]

\* A response_model=TaskResponse body
TaskResponse(status, task) ==
  [status |-> status, kind |-> "task", detail |-> "", headers |-> NoHeaders, data |-> <<task>>]

\* A response_model=List[TaskResponse] body
TaskListResponse(status, rows) ==
  [status |-> status, kind |-> "list", detail |-> "", headers |-> NoHeaders, data |-> rows]

\* status_code=204, handler returns None
EmptyResponse(status) ==
  [status |-> status, kind |-> "empty", detail |-> "", headers |-> NoHeaders, data |-> <<>>]

\* The framework's answer to a body that fails its schema
RequestValidationError ==
  [status |-> HTTP_422_UNPROCESSABLE_ENTITY, kind |-> "error", detail |-> "validation",
   headers |-> NoHeaders, data |-> <<>>]

\* ------------------------------------------------------------ tokens
\* A JWT as the verifier sees it: the header's kid and alg, whether the
\* signature verifies under the key published for kid, and the claims.
NoJwt == [none |-> TRUE]

Jwt(kid, alg, sig_ok, claims, sub, exp, iat) ==
  [kid |-> kid, alg |-> alg, sig_ok |-> sig_ok, claims |-> claims,
   sub |-> sub, exp |-> exp, iat |-> iat]

\* An Authorization header: absent (None), the empty string, or text whose
\* whitespace-separated words are `words`.  A word is literal text or a JWT.
Word(text) == [text |-> text, jwt |-> NoJwt]
JwtWord(t) == [text |-> "<jwt>", jwt |-> t]
NoAuthorization == [kind |-> "none", words |-> <<>>]
EmptyAuthorization == [kind |-> "empty", words |-> <<>>]
Authorization(words) == [kind |-> "text", words |-> words]

AuthOk(user) == [ok |-> TRUE, user |-> user, token |-> NoJwt, resp |-> EmptyResponse(HTTP_200_OK)]
AuthToken(t) == [ok |-> TRUE, user |-> "", token |-> t, resp |-> EmptyResponse(HTTP_200_OK)]
AuthFail(resp) == [ok |-> FALSE, user |-> "", token |-> NoJwt, resp |-> resp]

\* ------------------------------------------------------------ token gate
\* Key ids in the key set the identity provider publishes at JWKS_URL
PublishedKids == {"k1"}
RequiredClaims == {"sub", "exp", "iat"}
Algorithms == {"RS256"}

\* extract_token_from_header: the word after "Bearer", or 401
extract_token_from_header(authorization) ==
  IF authorization.kind \in {"none", "empty"}
    THEN AuthFail(HTTPException(HTTP_401_UNAUTHORIZED, "Not authenticated", WWWAuthenticate))
  ELSE LET parts == authorization.words IN
    IF Len(parts) # 2 \/ Lower(parts[1].text) # "bearer"
      THEN AuthFail(HTTPException(HTTP_401_UNAUTHORIZED, "Not authenticated", WWWAuthenticate))
      ELSE AuthToken(parts[2])

\* Mutant of JwtDecodeError: exp is compared with the clock without leeway.
JwtDecodeErrorNoLeeway(word, key_fetch, now) ==
  IF word.jwt = NoJwt THEN "DecodeError"
  ELSE LET t == word.jwt IN
    IF key_fetch = "error" THEN "PyJWKClientConnectionError"
    ELSE IF t.kid \notin {"k1"} THEN "PyJWKClientError"
    ELSE IF t.alg \notin {"RS256"} THEN "InvalidAlgorithmError"
    ELSE IF ~t.sig_ok THEN "InvalidSignatureError"
    ELSE IF ~({"sub", "exp", "iat"} \subseteq t.claims) THEN "MissingRequiredClaimError"
    ELSE IF t.exp <= now THEN "ExpiredSignatureError"
    ELSE "none"

\* Mutant of JwtDecodeError: the algorithm of the token header is trusted.
JwtDecodeErrorAnyAlgorithm(word, key_fetch, now) ==
  IF word.jwt = NoJwt THEN "DecodeError"
  ELSE LET t == word.jwt IN
    IF key_fetch = "error" THEN "PyJWKClientConnectionError"
    ELSE IF t.kid \notin {"k1"} THEN "PyJWKClientError"
    ELSE IF ~t.sig_ok THEN "InvalidSignatureError"
    ELSE IF ~({"sub", "exp", "iat"} \subseteq t.claims) THEN "MissingRequiredClaimError"
    ELSE IF t.exp <= now - LEEWAY THEN "ExpiredSignatureError"
    ELSE "none"

\* The exception, if any, that get_signing_key_from_jwt and jwt.decode raise
\* for the token word at clock value now.  key_fetch is what retrieving the
\* key set gave: "ok" (from the client's cache or the endpoint) or "error".
JwtDecodeError(word, key_fetch, now) ==
  IF word.jwt = NoJwt THEN "DecodeError"
  ELSE LET t == word.jwt IN
    IF key_fetch = "error" THEN "PyJWKClientConnectionError"
    ELSE IF t.kid \notin PublishedKids THEN "PyJWKClientError"
    ELSE IF t.alg \notin Algorithms THEN "InvalidAlgorithmError"
    ELSE IF ~t.sig_ok THEN "InvalidSignatureError"
    ELSE IF ~(RequiredClaims \subseteq t.claims) THEN "MissingRequiredClaimError"
    ELSE IF t.exp <= now - LEEWAY THEN "ExpiredSignatureError"
    ELSE "none"

InvalidTokenErrors ==
  {"DecodeError", "InvalidAlgorithmError", "InvalidSignatureError", "MissingRequiredClaimError"}

\* Mutant of verify_token: the except clause for an expired token says so.
verify_token_tells_expiry(word, key_fetch, now) ==
  LET e == JwtDecodeError(word, key_fetch, now) IN
    IF e = "none" THEN AuthToken(word.jwt)
    ELSE IF e = "ExpiredSignatureError"
      THEN AuthFail(HTTPException(HTTP_401_UNAUTHORIZED, "Token has expired", WWWAuthenticate))
    ELSE AuthFail(HTTPException(HTTP_401_UNAUTHORIZED, "Not authenticated", WWWAuthenticate))

\* verify_token: the payload (the token itself), or 401 from one of the
\* three except clauses
verify_token(word, key_fetch, now) ==
  LET e == JwtDecodeError(word, key_fetch, now) IN
    IF e = "none" THEN AuthToken(word.jwt)
    ELSE IF e = "ExpiredSignatureError"
      THEN AuthFail(HTTPException(HTTP_401_UNAUTHORIZED, "Not authenticated", WWWAuthenticate))
    ELSE IF e \in InvalidTokenErrors
      THEN AuthFail(HTTPException(HTTP_401_UNAUTHORIZED, "Not authenticated", WWWAuthenticate))
    ELSE AuthFail(HTTPException(HTTP_401_UNAUTHORIZED, "Not authenticated", WWWAuthenticate))

\* get_user_id_from_token: payload.get("sub"), 401 when it is falsy
get_user_id_from_token(word, key_fetch, now) ==
  LET v == verify_token(word, key_fetch, now) IN
    IF ~v.ok THEN v
    ELSE IF v.token.sub = ""
      THEN AuthFail(HTTPException(HTTP_401_UNAUTHORIZED, "Not authenticated", WWWAuthenticate))
      ELSE AuthOk(v.token.sub)

\* get_current_user: the dependency every handler declares
get_current_user(authorization, key_fetch, now) ==
  LET x == extract_token_from_header(authorization) IN
    IF ~x.ok THEN x ELSE get_user_id_from_token(x.token, key_fetch, now)

\* verify_user_access: TRUE when the handler may go on, FALSE when it raises 403
verify_user_access(token_user_id, path_user_id) == token_user_id = path_user_id

AccessDenied == HTTPException(HTTP_403_FORBIDDEN, "Access denied", NoHeaders)

\* ------------------------------------------------------------ schemas
\* A request body: the five keys the schemas read, each Unset when the body
\* does not carry it.  Keys the schema does not declare are ignored.
Body(title, description, completed, priority, due_date) ==
  [title |-> title, description |-> description, completed |-> completed,
   priority |-> priority, due_date |-> due_date]

NoBody == Body(Unset, Unset, Unset, Unset, Unset)

\* The five fields the schemas declare
BodyKeys == {"title", "description", "completed", "priority", "due_date"}

\* The body with three more keys, which no schema declares
WithExtraKeys(body, user_id, id, created_at) ==
  body @@ [user_id |-> user_id, id |-> id, created_at |-> created_at]

AllowedPriorities == {"low", "medium", "high"}

\* A validated schema instance; fields_set is pydantic's model_fields_set.
Valid(title, description, completed, priority, due_date, fields_set) ==
  [ok |-> TRUE, title |-> title, description |-> description, completed |-> completed,
   priority |-> priority, due_date |-> due_date, fields_set |-> fields_set]

Invalid == [Valid(Null, Null, Null, Null, Null, {}) EXCEPT !.ok = FALSE]

\* model_fields_set: the declared fields the body carries (the schemas keep
\* pydantic's default of ignoring other keys)
FieldsSet(body) == {f \in BodyKeys : body[f] # Unset}

\* title: str = Field(min_length=1, max_length=500) with title_not_empty:
\* the length limits apply to the text as sent, then the validator strips it
TitleAccepted(x) ==
  /\ IsStr(x)
  /\ StrLen(x) >= TITLE_MIN_LENGTH
  /\ StrLen(x) <= TITLE_MAX_LENGTH
  /\ Truthy(x) /\ Truthy(Strip(x))

\* description: Optional[str] = Field(default=None, max_length=5000)
DescriptionAccepted(x) ==
  \/ x \in {Unset, Null}
  \/ IsStr(x) /\ StrLen(x) <= DESCRIPTION_MAX_LENGTH

DescriptionValue(x) == IF x = Unset THEN Null ELSE x

\* due_date: Optional[date] = Field(default=None)
DueDateAccepted(x) == x \in {Unset, Null} \/ x.k = "date"

DueDateValue(x) == IF x = Unset THEN Null ELSE x

\* validate_priority of TaskCreate / TaskUpdate / TaskPartialUpdate on a string
PriorityTextAccepted(x) == x.k = "txt" /\ Lower(x.v) \in AllowedPriorities

\* Mutant of TaskCreate: description defaults to the empty string.
TaskCreateEmptyDescription(body) ==
  IF /\ TitleAccepted(body.title)
     /\ DescriptionAccepted(body.description)
     /\ (body.priority \in {Unset, Null} \/ PriorityTextAccepted(body.priority))
     /\ DueDateAccepted(body.due_date)
  THEN Valid(Strip(body.title),
             IF body.description = Unset THEN Str(0, 0, 0) ELSE body.description,
             Unset,
             IF body.priority \in {Unset, Null} THEN Txt("medium")
                                               ELSE Txt(Lower(body.priority.v)),
             DueDateValue(body.due_date),
             FieldsSet(body) \ {"completed"})
  ELSE Invalid

\* TaskCreate(**body)
TaskCreate(body) ==
  IF /\ TitleAccepted(body.title)
     /\ DescriptionAccepted(body.description)
     /\ (body.priority \in {Unset, Null} \/ PriorityTextAccepted(body.priority))
     /\ DueDateAccepted(body.due_date)
  THEN Valid(Strip(body.title),
             DescriptionValue(body.description),
             Unset,
             IF body.priority \in {Unset, Null} THEN Txt("medium")
                                               ELSE Txt(Lower(body.priority.v)),
             DueDateValue(body.due_date),
             FieldsSet(body) \ {"completed"})
  ELSE Invalid

\* TaskUpdate(**body): title and completed are required, priority is a str
TaskUpdate(body) ==
  IF /\ TitleAccepted(body.title)
     /\ DescriptionAccepted(body.description)
     /\ body.completed.k = "bool"
     /\ (body.priority = Unset \/ PriorityTextAccepted(body.priority))
     /\ DueDateAccepted(body.due_date)
  THEN Valid(Strip(body.title),
             DescriptionValue(body.description),
             body.completed,
             IF body.priority = Unset THEN Txt("medium") ELSE Txt(Lower(body.priority.v)),
             DueDateValue(body.due_date),
             FieldsSet(body))
  ELSE Invalid

\* Mutant of TaskPartialUpdate: the schema allows extra keys, so they are
\* part of the dump the handler applies.
TaskPartialUpdateAllowsExtra(body) ==
  IF /\ (body.title \in {Unset, Null} \/ TitleAccepted(body.title))
     /\ DescriptionAccepted(body.description)
     /\ body.completed.k \in {"unset", "null", "bool"}
     /\ (body.priority \in {Unset, Null} \/ PriorityTextAccepted(body.priority))
     /\ DueDateAccepted(body.due_date)
  THEN [f \in (DOMAIN body) \ BodyKeys |-> body[f]]
       @@ Valid(IF body.title \in {Unset, Null} THEN Null ELSE Strip(body.title),
                DescriptionValue(body.description),
                IF body.completed = Unset THEN Null ELSE body.completed,
                IF body.priority \in {Unset, Null} THEN Null ELSE Txt(Lower(body.priority.v)),
                DueDateValue(body.due_date),
                FieldsSet(body) \cup ((DOMAIN body) \ BodyKeys))
  ELSE Invalid

\* TaskPartialUpdate(**body): every field Optional with default None
TaskPartialUpdate(body) ==
  IF /\ (body.title \in {Unset, Null} \/ TitleAccepted(body.title))
     /\ DescriptionAccepted(body.description)
     /\ body.completed.k \in {"unset", "null", "bool"}
     /\ (body.priority \in {Unset, Null} \/ PriorityTextAccepted(body.priority))
     /\ DueDateAccepted(body.due_date)
  THEN Valid(IF body.title \in {Unset, Null} THEN Null ELSE Strip(body.title),
             DescriptionValue(body.description),
             IF body.completed = Unset THEN Null ELSE body.completed,
             IF body.priority \in {Unset, Null} THEN Null ELSE Txt(Lower(body.priority.v)),
             DueDateValue(body.due_date),
             FieldsSet(body))
  ELSE Invalid

\* ------------------------------------------------------------ tasks table
\* A row of the tasks table (class Task).  The nullable columns hold Null.
Task(id, user_id, title, description, completed, priority, due_date, created_at, updated_at) ==
  [id |-> id, user_id |-> user_id, title |-> title, description |-> description,
   completed |-> completed, priority |-> priority, due_date |-> due_date,
   created_at |-> created_at, updated_at |-> updated_at]

\* Mutant of NotNullOk: only the title column refuses NULL.
NotNullTitleOnly(t) == t.title # Null

\* Mutant of NotNullOk: the columns accept NULL.
NotNullUnchecked(t) == TRUE

\* nullable=False on title, completed and priority
NotNullOk(t) == t.title # Null /\ t.completed # Null /\ t.priority # Null

\* Mutant of SelectTask: the user_id condition is left out of the query.
SelectTaskByIdOnly(rows, task_id, user_id) == {t \in rows : t.id = task_id}

\* select(Task).where(Task.id == task_id, Task.user_id == user_id)
SelectTask(rows, task_id, user_id) == {t \in rows : t.id = task_id /\ t.user_id = user_id}

\* Mutant of SelectUserTasks: the rows come back oldest first.
RECURSIVE OrderByCreatedAsc(_)
OrderByCreatedAsc(rows) ==
  IF rows = {} THEN <<>>
  ELSE LET first == CHOOSE t \in rows : \A o \in rows : o.created_at >= t.created_at
       IN <<first>> \o OrderByCreatedAsc(rows \ {first})

SelectUserTasksOldestFirst(rows, user_id) ==
  OrderByCreatedAsc({t \in rows : t.user_id = user_id})

\* select(Task).where(Task.user_id == user_id).order_by(Task.created_at.desc())
RECURSIVE OrderByCreatedDesc(_)
OrderByCreatedDesc(rows) ==
  IF rows = {} THEN <<>>
  ELSE LET first == CHOOSE t \in rows : \A o \in rows : o.created_at <= t.created_at
       IN <<first>> \o OrderByCreatedDesc(rows \ {first})

SelectUserTasks(rows, user_id) == OrderByCreatedDesc({t \in rows : t.user_id = user_id})

\* What a handler leaves behind: the response, the table, the id sequence,
\* the number of datastore statements it executed, how many of them were
\* INSERT/UPDATE/DELETE, and the clock when it returns.
Outcome(resp, rows, next_id, stmts, writes, now) ==
  [resp |-> resp, rows |-> rows, next_id |-> next_id, stmts |-> stmts,
   writes |-> writes, now |-> now]

TaskNotFound == HTTPException(HTTP_404_NOT_FOUND, "Task not found", NoHeaders)
InternalServerError == HTTPException(HTTP_500_INTERNAL_SERVER_ERROR, "Internal server error", NoHeaders)

\* ------------------------------------------------------------ handlers
\* Mutant of create_task: the table hands out the smallest id no row holds.
create_task_reuses_freed_id(user_id, task_data, current_user_id, rows, next_id, now, gap, fault) ==
  IF ~verify_user_access(current_user_id, user_id)
    THEN Outcome(AccessDenied, rows, next_id, 0, 0, now)
  ELSE LET free == CHOOSE i \in 1 .. next_id :
                     /\ \A t \in rows : t.id # i
                     /\ \A j \in 1 .. (i - 1) : \E t \in rows : t.id = j
           task == Task(free, user_id, task_data.title, task_data.description,
                        Bool(FALSE),
                        IF task_data.priority = Null THEN Txt("medium") ELSE task_data.priority,
                        task_data.due_date, now, now + gap)
       IN Outcome(TaskResponse(HTTP_201_CREATED, task), rows \cup {task}, next_id + 1,
                  2, 1, now + gap + 2)

\* POST /users/{user_id}/tasks.  gap is the time that passes between the two
\* default_factory=datetime.utcnow calls that fill created_at and updated_at.
create_task(user_id, task_data, current_user_id, rows, next_id, now, gap, fault) ==
  IF ~verify_user_access(current_user_id, user_id)
    THEN Outcome(AccessDenied, rows, next_id, 0, 0, now)
  ELSE LET task == Task(next_id, user_id, task_data.title, task_data.description,
                        Bool(FALSE),
                        IF task_data.priority = Null THEN Txt("medium") ELSE task_data.priority,
                        task_data.due_date, now, now + gap)
       IN IF fault = 1
            THEN \* commit (INSERT) fails: except clause, session.rollback()
                 Outcome(InternalServerError, rows, next_id, 1, 1, now + gap + 1)
          ELSE IF fault = 2
            THEN \* refresh (SELECT) fails after the commit: except clause,
                 \* session.rollback() with nothing left to roll back
                 Outcome(InternalServerError, rows \cup {task}, next_id + 1,
                         2, 1, now + gap + 2)
            ELSE \* session.add, commit (INSERT), refresh (SELECT)
                 Outcome(TaskResponse(HTTP_201_CREATED, task), rows \cup {task}, next_id + 1,
                         2, 1, now + gap + 2)

\* GET /users/{user_id}/tasks
list_tasks(user_id, current_user_id, rows, next_id, now, fault) ==
  IF ~verify_user_access(current_user_id, user_id)
    THEN Outcome(AccessDenied, rows, next_id, 0, 0, now)
  ELSE IF fault = 1
    THEN Outcome(InternalServerError, rows, next_id, 1, 0, now + 1)
  ELSE Outcome(TaskListResponse(HTTP_200_OK, SelectUserTasks(rows, user_id)),
               rows, next_id, 1, 0, now + 1)

\* Mutant of get_task: the row is fetched by id alone and its owner is
\* compared afterwards.
get_task_owner_checked_after(user_id, task_id, current_user_id, rows, next_id, now, fault) ==
  IF ~verify_user_access(current_user_id, user_id)
    THEN Outcome(AccessDenied, rows, next_id, 0, 0, now)
  ELSE LET found == {t \in rows : t.id = task_id} IN
    IF found = {}
      THEN Outcome(TaskNotFound, rows, next_id, 1, 0, now + 1)
    ELSE IF \E t \in found : t.user_id # user_id
      THEN Outcome(AccessDenied, rows, next_id, 1, 0, now + 1)
      ELSE Outcome(TaskResponse(HTTP_200_OK, CHOOSE t \in found : TRUE),
                   rows, next_id, 1, 0, now + 1)

\* GET /users/{user_id}/tasks/{task_id}
get_task(user_id, task_id, current_user_id, rows, next_id, now, fault) ==
  IF ~verify_user_access(current_user_id, user_id)
    THEN Outcome(AccessDenied, rows, next_id, 0, 0, now)
  ELSE IF fault = 1
    THEN Outcome(InternalServerError, rows, next_id, 1, 0, now + 1)
  ELSE LET found == SelectTask(rows, task_id, user_id) IN
    IF found = {}
      THEN Outcome(TaskNotFound, rows, next_id, 1, 0, now + 1)
      ELSE Outcome(TaskResponse(HTTP_200_OK, CHOOSE t \in found : TRUE),
                   rows, next_id, 1, 0, now + 1)

\* Mutant of ReplaceAll: a null description leaves the stored one in place.
ReplaceAllKeepsOnNull(task, task_data, at) ==
  [task EXCEPT !.title = task_data.title,
               !.description = IF task_data.description = Null THEN @
                               ELSE task_data.description,
               !.completed = task_data.completed,
               !.priority = task_data.priority,
               !.due_date = task_data.due_date,
               !.updated_at = at]

\* The row after `task.f = task_data.f` for the five fields and
\* task.updated_at = datetime.utcnow()
ReplaceAll(task, task_data, at) ==
  [task EXCEPT !.title = task_data.title,
               !.description = task_data.description,
               !.completed = task_data.completed,
               !.priority = task_data.priority,
               !.due_date = task_data.due_date,
               !.updated_at = at]

\* Mutant of update_task: a row of another user is found and refused.
update_task_refuses_foreign(user_id, task_id, task_data, current_user_id, rows, next_id, now, fault) ==
  IF ~verify_user_access(current_user_id, user_id)
    THEN Outcome(AccessDenied, rows, next_id, 0, 0, now)
  ELSE LET found == {t \in rows : t.id = task_id} IN
    IF found = {}
      THEN Outcome(TaskNotFound, rows, next_id, 1, 0, now + 1)
    ELSE IF \E t \in found : t.user_id # user_id
      THEN Outcome(AccessDenied, rows, next_id, 1, 0, now + 1)
    ELSE LET task == CHOOSE t \in found : TRUE
             new == ReplaceAll(task, task_data, now + 1)
         IN Outcome(TaskResponse(HTTP_200_OK, new), (rows \ {task}) \cup {new},
                    next_id, 3, 1, now + 3)

\* PUT /users/{user_id}/tasks/{task_id}
update_task(user_id, task_id, task_data, current_user_id, rows, next_id, now, fault) ==
  IF ~verify_user_access(current_user_id, user_id)
    THEN Outcome(AccessDenied, rows, next_id, 0, 0, now)
  ELSE IF fault = 1
    THEN Outcome(InternalServerError, rows, next_id, 1, 0, now + 1)
  ELSE LET found == SelectTask(rows, task_id, user_id) IN
    IF found = {}
      THEN Outcome(TaskNotFound, rows, next_id, 1, 0, now + 1)
    ELSE LET task == CHOOSE t \in found : TRUE
             new == ReplaceAll(task, task_data, now + 1)
         IN IF ~NotNullOk(new) \/ fault = 2
              THEN \* the UPDATE fails, session.rollback()
                   Outcome(InternalServerError, rows, next_id, 2, 1, now + 2)
            ELSE IF fault = 3
              THEN \* refresh (SELECT) fails after the commit
                   Outcome(InternalServerError, (rows \ {task}) \cup {new},
                           next_id, 3, 1, now + 3)
              ELSE \* commit (UPDATE), refresh (SELECT)
                   Outcome(TaskResponse(HTTP_200_OK, new), (rows \ {task}) \cup {new},
                           next_id, 3, 1, now + 3)

\* Mutant of ApplyPartial: the body is dumped without exclude_unset, so
\* every schema field is written, the defaults of the absent keys included.
ApplyPartialDumpsAll(task, task_data, at) ==
  [f \in DOMAIN task |->
     IF f = "updated_at" THEN at
     ELSE IF f \in {"title", "description", "completed", "priority", "due_date"}
       THEN task_data[f]
     ELSE task[f]]

\* Mutant of ApplyPartial: the timestamp is refreshed only when the body
\* carries a key.
ApplyPartialRefreshIfChanged(task, task_data, at) ==
  [f \in DOMAIN task |->
     IF f = "updated_at" THEN (IF task_data.fields_set = {} THEN task[f] ELSE at)
     ELSE IF f \in task_data.fields_set THEN task_data[f]
     ELSE task[f]]

\* Mutant of ApplyPartial: the timestamp refresh is written to created_at.
ApplyPartialTouchesCreatedAt(task, task_data, at) ==
  [f \in DOMAIN task |->
     IF f = "created_at" THEN at
     ELSE IF f \in task_data.fields_set THEN task_data[f]
     ELSE task[f]]

\* The row after setattr(task, field, value) for every field of
\* task_data.model_dump(exclude_unset=True) and the updated_at refresh
ApplyPartial(task, task_data, at) ==
  [f \in DOMAIN task |->
     IF f = "updated_at" THEN at
     ELSE IF f \in task_data.fields_set THEN task_data[f]
     ELSE task[f]]

\* PATCH /users/{user_id}/tasks/{task_id}
patch_task(user_id, task_id, task_data, current_user_id, rows, next_id, now, fault) ==
  IF ~verify_user_access(current_user_id, user_id)
    THEN Outcome(AccessDenied, rows, next_id, 0, 0, now)
  ELSE IF fault = 1
    THEN Outcome(InternalServerError, rows, next_id, 1, 0, now + 1)
  ELSE LET found == SelectTask(rows, task_id, user_id) IN
    IF found = {}
      THEN Outcome(TaskNotFound, rows, next_id, 1, 0, now + 1)
    ELSE LET task == CHOOSE t \in found : TRUE
             new == ApplyPartial(task, task_data, now + 1)
         IN IF ~NotNullOk(new) \/ fault = 2
              THEN Outcome(InternalServerError, rows, next_id, 2, 1, now + 2)
            ELSE IF fault = 3
              THEN Outcome(InternalServerError, (rows \ {task}) \cup {new},
                           next_id, 3, 1, now + 3)
              ELSE Outcome(TaskResponse(HTTP_200_OK, new), (rows \ {task}) \cup {new},
                           next_id, 3, 1, now + 3)

\* Mutant of delete_task: the row is deleted and the request is answered as
\* if it had not been there.
delete_task_answers_missing(user_id, task_id, current_user_id, rows, next_id, now, fault) ==
  IF ~verify_user_access(current_user_id, user_id)
    THEN Outcome(AccessDenied, rows, next_id, 0, 0, now)
  ELSE LET found == {t \in rows : t.id = task_id /\ t.user_id = user_id} IN
    Outcome(HTTPException(HTTP_404_NOT_FOUND, "Task not found", NoHeaders),
            rows \ found, next_id, 2, 1, now + 2)

\* Mutant of delete_task: the row is deleted by id alone.
delete_task_by_id_only(user_id, task_id, current_user_id, rows, next_id, now, fault) ==
  IF ~verify_user_access(current_user_id, user_id)
    THEN Outcome(AccessDenied, rows, next_id, 0, 0, now)
  ELSE LET found == {t \in rows : t.id = task_id} IN
    IF found = {}
      THEN Outcome(TaskNotFound, rows, next_id, 1, 0, now + 1)
      ELSE Outcome(EmptyResponse(HTTP_204_NO_CONTENT), rows \ found, next_id, 2, 1, now + 2)

\* DELETE /users/{user_id}/tasks/{task_id}
delete_task(user_id, task_id, current_user_id, rows, next_id, now, fault) ==
  IF ~verify_user_access(current_user_id, user_id)
    THEN Outcome(AccessDenied, rows, next_id, 0, 0, now)
  ELSE IF fault = 1
    THEN Outcome(InternalServerError, rows, next_id, 1, 0, now + 1)
  ELSE LET found == SelectTask(rows, task_id, user_id) IN
    IF found = {}
      THEN Outcome(TaskNotFound, rows, next_id, 1, 0, now + 1)
    ELSE IF fault = 2
      THEN \* commit (DELETE) fails, session.rollback()
           Outcome(InternalServerError, rows, next_id, 2, 1, now + 2)
      ELSE \* session.delete, commit (DELETE)
           Outcome(EmptyResponse(HTTP_204_NO_CONTENT), rows \ found, next_id, 2, 1, now + 2)

\* ------------------------------------------------------------ requests
\* One HTTP request: the operation, the Authorization header, what the key
\* set retrieval gives while it is served, the path parameters, the body and
\* the time between the two timestamp defaults of a created Task.
Request(op, authorization, key_fetch, user_id, task_id, body, gap) ==
  [op |-> op, authorization |-> authorization, key_fetch |-> key_fetch,
   user_id |-> user_id, task_id |-> task_id, body |-> body, gap |-> gap, fault |-> 0]

\* The request served while the datastore fails the k-th call the handler
\* awaits on its session (execute, commit or refresh)
Failing(r, k) == [r EXCEPT !.fault = k]

\* The framework resolves Depends(get_current_user) first, builds task_data
\* from the body next and calls the handler last.
Route(r, rows, next_id, now) ==
  LET auth == get_current_user(r.authorization, r.key_fetch, now) IN
    IF ~auth.ok THEN Outcome(auth.resp, rows, next_id, 0, 0, now)
    ELSE CASE r.op = "create" ->
                LET d == TaskCreate(r.body) IN
                  IF ~d.ok THEN Outcome(RequestValidationError, rows, next_id, 0, 0, now)
                  ELSE create_task(r.user_id, d, auth.user, rows, next_id, now, r.gap, r.fault)
           [] r.op = "list" -> list_tasks(r.user_id, auth.user, rows, next_id, now, r.fault)
           [] r.op = "get" -> get_task(r.user_id, r.task_id, auth.user, rows, next_id, now, r.fault)
           [] r.op = "put" ->
                LET d == TaskUpdate(r.body) IN
                  IF ~d.ok THEN Outcome(RequestValidationError, rows, next_id, 0, 0, now)
                  ELSE update_task(r.user_id, r.task_id, d, auth.user, rows, next_id, now, r.fault)
           [] r.op = "patch" ->
                LET d == TaskPartialUpdate(r.body) IN
                  IF ~d.ok THEN Outcome(RequestValidationError, rows, next_id, 0, 0, now)
                  ELSE patch_task(r.user_id, r.task_id, d, auth.user, rows, next_id, now, r.fault)
           [] r.op = "delete" ->
                delete_task(r.user_id, r.task_id, auth.user, rows, next_id, now, r.fault)

\* The verified token subject of a request, "" when verification fails
Caller(r, now) == get_current_user(r.authorization, r.key_fetch, now).user

\* ------------------------------------------------- handlers, await by await
\* Requests are coroutines: between two awaits of one handler the awaits of
\* the others run, each on a session and a transaction of its own
\* (READ COMMITTED, the default of the datastore).

\* No row loaded
NoTask == Task(0, "", Null, Null, Null, Null, Null, 0, 0)

\* A request in flight: where its handler stands (pc), the row its SELECT
\* loaded (task), the same object after the handler's assignments (dirty),
\* the statements issued so far and the response once it is done.
Flight(req, pc, task, dirty, stmts, resp) ==
  [req |-> req, pc |-> pc, task |-> task, dirty |-> dirty, stmts |-> stmts, resp |-> resp]

Done(f, stmts, resp) == [f EXCEPT !.pc = "done", !.stmts = stmts, !.resp = resp]

\* The attributes of the loaded object whose value the handler changed: the
\* columns the unit of work writes
Changed(task, dirty) == {c \in DOMAIN task : dirty[c] # task[c]}

\* Dependencies, body validation, verify_user_access, then the handler up
\* to the return of `await session.execute(statement)` and the assignments
\* that follow it without an await
session_execute(r, rows, now) ==
  LET auth == get_current_user(r.authorization, r.key_fetch, now)
      d == CASE r.op = "put" -> TaskUpdate(r.body)
             [] r.op = "patch" -> TaskPartialUpdate(r.body)
             [] OTHER -> Valid(Null, Null, Null, Null, Null, {})
      f == Flight(r, "execute", NoTask, NoTask, 0, EmptyResponse(HTTP_200_OK))
  IN IF ~auth.ok THEN Done(f, 0, auth.resp)
     ELSE IF ~d.ok THEN Done(f, 0, RequestValidationError)
     ELSE IF ~verify_user_access(auth.user, r.user_id) THEN Done(f, 0, AccessDenied)
     ELSE LET found == SelectTask(rows, r.task_id, r.user_id) IN
       IF found = {} THEN Done(f, 1, TaskNotFound)
       ELSE LET task == CHOOSE t \in found : TRUE IN
         Flight(r, "commit", task,
                CASE r.op = "put" -> ReplaceAll(task, d, now + 1)
                  [] r.op = "patch" -> ApplyPartial(task, d, now + 1)
                  [] OTHER -> task,
                1, EmptyResponse(HTTP_200_OK))

\* Mutant of Flush: the pending object is merged, a row that is gone is
\* inserted again.
FlushMerges(f, rows) ==
  LET cur == {t \in rows : t.id = f.task.id} IN
    IF f.req.op = "delete" THEN [raised |-> FALSE, rows |-> rows \ cur]
    ELSE IF ~NotNullOk(f.dirty) THEN [raised |-> TRUE, rows |-> rows]
    ELSE [raised |-> FALSE, rows |-> (rows \ cur) \cup {f.dirty}]

\* The flush of session.commit(): DELETE FROM tasks WHERE id = :pk for a
\* deleted object; UPDATE tasks SET <changed columns> WHERE id = :pk for a
\* changed one, which raises StaleDataError when it matches no row.
Flush(f, rows) ==
  LET cur == {t \in rows : t.id = f.task.id} IN
    IF f.req.op = "delete" THEN [raised |-> FALSE, rows |-> rows \ cur]
    ELSE IF Changed(f.task, f.dirty) = {} THEN [raised |-> FALSE, rows |-> rows]
    ELSE IF cur = {} THEN [raised |-> TRUE, rows |-> rows]
    ELSE LET row == CHOOSE t \in cur : TRUE
             new == [c \in DOMAIN row |->
                       IF c \in Changed(f.task, f.dirty) THEN f.dirty[c] ELSE row[c]]
         IN IF ~NotNullOk(new) THEN [raised |-> TRUE, rows |-> rows]
            ELSE [raised |-> FALSE, rows |-> (rows \ cur) \cup {new}]

\* `await session.commit()` and what follows it up to the next await: the
\* 204 of delete_task, or the except clause (rollback, 500)
session_commit(f, rows) ==
  LET u == Flush(f, rows) IN
    IF u.raised THEN [flight |-> Done(f, f.stmts + 1, InternalServerError), rows |-> rows]
    ELSE IF f.req.op = "delete"
      THEN [flight |-> Done(f, f.stmts + 1, EmptyResponse(HTTP_204_NO_CONTENT)), rows |-> u.rows]
      ELSE [flight |-> [f EXCEPT !.pc = "refresh", !.stmts = f.stmts + 1], rows |-> u.rows]

\* `await session.refresh(task)` and the return: the row is selected by its
\* primary key; the refresh raises when it is gone
session_refresh(f, rows) ==
  LET cur == {t \in rows : t.id = f.task.id} IN
    IF cur = {} THEN Done(f, f.stmts + 1, InternalServerError)
    ELSE Done(f, f.stmts + 1, TaskResponse(HTTP_200_OK, CHOOSE t \in cur : TRUE))

\* ------------------------------------------------------------ key sets
\* services/jwks.py.  A key set is the set of key ids of its "keys" array; a
\* remote call gives a key set or raises httpx.HTTPError.
TTL == 3600
Jwks(kids) == [keys |-> kids]
HTTPError == [keys |-> {"<HTTPError>"}]

\* _jwks_cache = TTLCache(maxsize=10, ttl=3600) holds at most the entry of
\* the one configured URL: the key set and the timer value at which the
\* entry expires.  An expired entry stays in place until the next store, but
\* the cache no longer admits to it.
NoEntry == [set |-> FALSE, jwks |-> Jwks({}), expires |-> 0]
Entry(jwks, now) == [set |-> TRUE, jwks |-> jwks, expires |-> now + TTL]

\* Mutant of Contains: an entry never expires.
ContainsForever(cache, now) == cache.set

\* `cache_key in _jwks_cache` at timer value now
Contains(cache, now) == cache.set /\ now < cache.expires

\* What a call leaves behind: whether it raised, the value it returned, the
\* cache, and the number of remote calls it made
Fetched(raised, value, cache, remote_calls) ==
  [raised |-> raised, value |-> value, cache |-> cache, remote_calls |-> remote_calls]

\* JWKSService.fetch_jwks(force_refresh) at timer value now, when the remote
\* call, if one is made, gives `remote`
fetch_jwks(force_refresh, cache, now, remote) ==
  IF ~force_refresh /\ Contains(cache, now)
    THEN Fetched(FALSE, cache.jwks, cache, 0)
  ELSE IF remote # HTTPError
    THEN Fetched(FALSE, remote, Entry(remote, now), 1)
  ELSE IF Contains(cache, now)
    THEN \* "stale" fallback
         Fetched(FALSE, cache.jwks, cache, 1)
    ELSE \* raise
         Fetched(TRUE, Jwks({}), cache, 1)

\* What a key lookup leaves behind: whether it raised, the key id found
\* ("" for None), the cache, the remote calls and the forced refreshes made
Looked(raised, key, cache, remote_calls, forced) ==
  [raised |-> raised, key |-> key, cache |-> cache, remote_calls |-> remote_calls,
   forced |-> forced]

\* Mutant of get_key_by_kid: the key set is refreshed before every lookup.
get_key_by_kid_refreshes_first(kid, cache, now, remotes) ==
  LET f == fetch_jwks(TRUE, cache, now, remotes[1]) IN
    IF f.raised THEN Looked(TRUE, "", f.cache, f.remote_calls, 1)
    ELSE Looked(FALSE, IF kid \in f.value.keys THEN kid ELSE "", f.cache, f.remote_calls, 1)

\* JWKSService.get_key_by_kid(kid) at timer value now, when the remote calls
\* it makes give remotes[1], remotes[2] in this order
get_key_by_kid(kid, cache, now, remotes) ==
  LET first == fetch_jwks(FALSE, cache, now, remotes[1]) IN
    IF first.raised THEN Looked(TRUE, "", first.cache, first.remote_calls, 0)
    ELSE IF kid \in first.value.keys
      THEN Looked(FALSE, kid, first.cache, first.remote_calls, 0)
    ELSE LET second == fetch_jwks(TRUE, first.cache, now, remotes[first.remote_calls + 1]) IN
      IF second.raised
        THEN Looked(TRUE, "", second.cache, first.remote_calls + second.remote_calls, 1)
      ELSE Looked(FALSE, IF kid \in second.value.keys THEN kid ELSE "", second.cache,
                  first.remote_calls + second.remote_calls, 1)

\* ------------------------------------------------------------ state
VARIABLES
  tasks,       \* the rows of the tasks table
  id_seq,      \* the next id the table assigns
  clock,       \* datetime.utcnow()
  last,        \* the request served last, with its response
  jwks_cache,  \* _jwks_cache
  monotonic,   \* time.monotonic(), the timer of _jwks_cache
  jwks_last,   \* the call of the key set service made last, with its result
  inflight     \* the requests being served concurrently, by worker

vars == <<tasks, id_seq, clock, last, jwks_cache, monotonic, jwks_last, inflight>>

Workers == 1 .. MaxWorkers

\* A worker without a request
Free == Flight(Request("none", NoAuthorization, "ok", "", 0, NoBody, 0), "free",
               NoTask, NoTask, 0, EmptyResponse(HTTP_200_OK))

\* No call of the key set service yet
NoCall ==
  [call |-> "none", force_refresh |-> FALSE, kid |-> "", remotes |-> <<>>, at |-> 0,
   raised |-> FALSE, value |-> Jwks({}), key |-> "", remote_calls |-> 0, forced |-> 0]

NoRequest == Request("none", NoAuthorization, "ok", "", 0, NoBody, 0)

Init ==
  /\ tasks = {}
  /\ id_seq = 1
  /\ clock = 0
  /\ last = [req |-> NoRequest, resp |-> EmptyResponse(HTTP_200_OK), caller |-> "",
             stmts |-> 0, writes |-> 0, at |-> 0]
  /\ jwks_cache = NoEntry
  /\ monotonic = 0
  /\ jwks_last = NoCall
  /\ inflight = [w \in Workers |-> Free]

\* Serve request r: the whole of Route, while the table has issued at most
\* max_tasks ids and the clock has not passed max_clock.
ServeWithin(r, max_tasks, max_clock) ==
  LET o == Route(r, tasks, id_seq, clock) IN
    /\ o.stmts > 0 => clock <= max_clock
    /\ o.next_id <= max_tasks + 1
    /\ tasks' = o.rows
    /\ id_seq' = o.next_id
    /\ clock' = o.now
    /\ last' = [req |-> r, resp |-> o.resp, caller |-> Caller(r, clock),
                stmts |-> o.stmts, writes |-> o.writes, at |-> clock]
    /\ UNCHANGED <<jwks_cache, monotonic, jwks_last, inflight>>

Serve(r) == ServeWithin(r, MaxTasks, MaxClock)

\* ------------------------------------------------------------ inputs
\* Token subjects, and the user ids a path may name
Users == {"alice", "bob"}
PathUsers == Users \cup {"Alice"}
TaskIds == 1 .. MaxTasks
Ops == {"create", "list", "get", "put", "patch", "delete"}
IdOps == {"get", "put", "patch", "delete"}
BodyOps == {"create", "put", "patch"}

\* exp claims: not reached within a run, already past the leeway at clock 0,
\* and passing the leeway at clock 2
FreshExp == MaxClock + LEEWAY
StaleExp == 0 - LEEWAY
AgingExp == 2 - LEEWAY

GoodJwt(sub) == Jwt("k1", "RS256", TRUE, RequiredClaims, sub, FreshExp, 0)

\* Tokens that differ from a good token of alice in one respect
BadJwts ==
  {[GoodJwt("alice") EXCEPT !.kid = "k9"],
   [GoodJwt("alice") EXCEPT !.alg = "HS256"],
   [GoodJwt("alice") EXCEPT !.sig_ok = FALSE],
   [GoodJwt("alice") EXCEPT !.exp = StaleExp],
   [GoodJwt("alice") EXCEPT !.exp = AgingExp],
   [GoodJwt("alice") EXCEPT !.sub = ""]}
  \cup {[GoodJwt("alice") EXCEPT !.claims = RequiredClaims \ {c}] : c \in RequiredClaims}

Bearer(t) == Authorization(<<Word("Bearer"), JwtWord(t)>>)

\* Headers that are not "Bearer <token>" with a good token
OddHeaders ==
  {NoAuthorization, EmptyAuthorization,
   Authorization(<<JwtWord(GoodJwt("alice"))>>),
   Authorization(<<Word("Basic"), JwtWord(GoodJwt("alice"))>>),
   Authorization(<<Word("Bearer"), JwtWord(GoodJwt("alice")), Word("x")>>),
   Authorization(<<Word("Bearer"), Word("garbage")>>),
   Authorization(<<Word("bearer"), JwtWord(GoodJwt("alice"))>>)}
  \cup {Bearer(t) : t \in BadJwts}

\* Bodies: a title alone; every key, with padding, upper case and a
\* completed flag; a blank title; a PUT without completed; an empty PATCH
TitleOnly == Body(Str(0, 1, 0), Unset, Unset, Unset, Unset)
FullBody == Body(Str(1, 1, 1), Str(0, 2, 0), Bool(TRUE), Txt("HIGH"), Date(1))
BlankTitle == Body(Str(2, 0, 0), Unset, Unset, Unset, Unset)
Completed == Body(Unset, Unset, Bool(TRUE), Unset, Unset)

Bodies(op) ==
  CASE op = "create" -> {TitleOnly, FullBody, BlankTitle}
    [] op = "put" -> {FullBody, TitleOnly}
    [] op = "patch" -> {Completed, BlankTitle}
    [] OTHER -> {NoBody}

Gaps(op) == IF op = "create" THEN {0, 1} ELSE {0}
PathIds(op) == IF op \in IdOps THEN TaskIds ELSE {0}
FirstId(op) == IF op \in IdOps THEN {1} ELSE {0}

GoodHeaders == {Bearer(GoodJwt(u)) : u \in Users}

RequestsWith(op, headers, fetches, paths, ids, bodies, gaps) ==
  {Request(op, h, kf, p, id, b, g) :
     h \in headers, kf \in fetches, p \in paths, id \in ids, b \in bodies, g \in gaps}

\* Requests of users with good tokens, on any path
UserRequests(op) ==
  RequestsWith(op, GoodHeaders, {"ok"}, PathUsers, PathIds(op), Bodies(op), Gaps(op))

\* Requests on alice's path under every other header, and under a good
\* token while the key set cannot be retrieved
GateRequests(op) ==
  RequestsWith(op, OddHeaders, {"ok"}, {"alice"}, FirstId(op), {TitleOnly}, {0})
  \cup RequestsWith(op, {Bearer(GoodJwt("alice"))}, {"error"}, {"alice"}, FirstId(op),
                    {TitleOnly}, {0})

Requests(op) == UserRequests(op) \cup GateRequests(op)

\* ------------------------------------------------------------ actions
Idle == last.req.op = "none"

CreateTask == Idle /\ \E r \in Requests("create") : Serve(r)
ListTasks == Idle /\ \E r \in Requests("list") : Serve(r)
GetTask == Idle /\ \E r \in Requests("get") : Serve(r)
UpdateTask == Idle /\ \E r \in Requests("put") : Serve(r)
PatchTask == Idle /\ \E r \in Requests("patch") : Serve(r)
DeleteTask == Idle /\ \E r \in Requests("delete") : Serve(r)

\* get_session after the yield: the response has been produced, the session
\* is committed (nothing is pending) and closed, the request scope ends.
CloseSession ==
  /\ ~Idle
  /\ last' = [req |-> NoRequest, resp |-> EmptyResponse(HTTP_200_OK), caller |-> "",
              stmts |-> 0, writes |-> 0, at |-> 0]
  /\ UNCHANGED <<tasks, id_seq, clock, jwks_cache, monotonic, jwks_last, inflight>>

Next ==
  \/ CreateTask
  \/ ListTasks
  \/ GetTask
  \/ UpdateTask
  \/ PatchTask
  \/ DeleteTask
  \/ CloseSession

Spec == Init /\ [][Next]_vars

\* ------------------------------------------------- field-level requests
\* A second specification of the same routes: alice alone, with a good
\* token, sending bodies that probe every field constraint of the schemas.
Roomy == Str(0, 2, 0)
AtTitleLimit == Str(1, TITLE_MAX_LENGTH - 1, 0)
PaddedOverLimit == Str(1, TITLE_MAX_LENGTH, 0)
OverTitleLimit == Str(0, TITLE_MAX_LENGTH + 1, 0)
AtDescriptionLimit == Str(0, DESCRIPTION_MAX_LENGTH, 0)
OverDescriptionLimit == Str(0, DESCRIPTION_MAX_LENGTH + 1, 0)

\* POST bodies: accepted ones, then one per way of failing a constraint
CreateBodies ==
  {TitleOnly, FullBody,
   Body(AtTitleLimit, AtDescriptionLimit, Unset, Txt("Low"), Unset),
   Body(Roomy, Null, Unset, Null, Null),
   NoBody,
   Body(Null, Unset, Unset, Unset, Unset),
   Body(Str(0, 0, 0), Unset, Unset, Unset, Unset),
   BlankTitle,
   Body(OverTitleLimit, Unset, Unset, Unset, Unset),
   Body(PaddedOverLimit, Unset, Unset, Unset, Unset),
   Body(Roomy, OverDescriptionLimit, Unset, Unset, Unset),
   Body(Roomy, Unset, Unset, Txt("urgent"), Unset)}

\* FullBody without key f
Without(body, f) == [body EXCEPT ![f] = Unset]

\* PUT bodies: every key, every key but one, explicit nulls, bad values
UpdateBodies ==
  {FullBody, Body(Roomy, Null, Bool(FALSE), Txt("Medium"), Null)}
  \cup {Without(FullBody, f) : f \in DOMAIN FullBody}
  \cup {[FullBody EXCEPT !.title = PaddedOverLimit],
        [FullBody EXCEPT !.priority = Txt("urgent")],
        [FullBody EXCEPT !.priority = Null],
        [FullBody EXCEPT !.title = Null]}

\* PATCH bodies: no key, one key, several keys, explicit nulls, bad values
PatchBodies ==
  {NoBody, Completed,
   Body(Str(1, 2, 1), Unset, Unset, Unset, Unset),
   Body(Unset, Unset, Unset, Txt("High"), Unset),
   Body(Unset, Roomy, Unset, Unset, Date(2)),
   Body(Unset, Null, Unset, Unset, Null),
   Body(Roomy, Unset, Bool(FALSE), Txt("low"), Unset),
   Body(Null, Unset, Unset, Unset, Unset),
   Body(Unset, Unset, Null, Unset, Unset),
   Body(Unset, Unset, Unset, Null, Unset),
   BlankTitle,
   Body(PaddedOverLimit, Unset, Unset, Unset, Unset),
   Body(Unset, Unset, Unset, Txt("urgent"), Unset)}

FieldRequests(op) ==
  RequestsWith(op, {Bearer(GoodJwt("alice"))}, {"ok"}, {"alice"}, FirstId(op),
               CASE op = "create" -> CreateBodies
                 [] op = "put" -> UpdateBodies
                 [] op = "patch" -> PatchBodies
                 [] OTHER -> {NoBody},
               Gaps(op))

CreateTaskFields == Idle /\ \E r \in FieldRequests("create") : Serve(r)
UpdateTaskFields == Idle /\ \E r \in FieldRequests("put") : Serve(r)
PatchTaskFields == Idle /\ \E r \in FieldRequests("patch") : Serve(r)

FieldsNext ==
  \/ CreateTaskFields
  \/ UpdateTaskFields
  \/ PatchTaskFields
  \/ CloseSession

FieldsSpec == Init /\ [][FieldsNext]_vars

\* ------------------------------------------------------------ properties
Served == last.req.op # "none"
Authenticated == Served /\ last.caller # ""

\* Whether the body of r passes the schema of its operation
BodyAccepted(r) ==
  CASE r.op = "create" -> TaskCreate(r.body).ok
    [] r.op = "put" -> TaskUpdate(r.body).ok
    [] r.op = "patch" -> TaskPartialUpdate(r.body).ok
    [] OTHER -> TRUE

\* The tasks a response carries
Returned(resp) == {resp.data[i] : i \in 1 .. Len(resp.data)}

\* C1: a request returns a task's data, or changes or deletes a task, only
\* if the task's user_id is the subject of the verified token of the request.
C1_OwnerOnly ==
  [][last'.req.op # "none" =>
       /\ \A t \in Returned(last'.resp) : t.user_id = last'.caller /\ last'.caller # ""
       /\ \A t \in (tasks \ tasks') \cup (tasks' \ tasks) :
            t.user_id = last'.caller /\ last'.caller # ""]_vars

\* C1 witness: a user got a task back while another user has tasks too.
C1_Witness ==
  /\ Authenticated
  /\ last.req.op = "get"
  /\ last.resp.status = HTTP_200_OK
  /\ Returned(last.resp) # {}
  /\ \E t \in tasks : t.user_id # last.caller

\* The requests C2 is about: an authenticated caller addresses, by its id, a
\* task of somebody else.
ForeignTask ==
  /\ Authenticated
  /\ last.req.op \in IdOps
  /\ \E t \in tasks : t.id = last.req.task_id /\ t.user_id # last.caller

OwnerGet(u, id, rows, seq, now) ==
  Route(Request("get", Bearer(GoodJwt(u)), "ok", u, id, NoBody, 0), rows, seq, now).resp

\* C3: a PUT, PATCH or DELETE never changes or removes a task of a user other
\* than the caller: the row is the same afterwards and its owner still gets it.
C3_OthersUntouched ==
  [][last'.req.op \in {"put", "patch", "delete"} =>
       \A t \in tasks :
         t.user_id # last'.caller =>
           /\ t \in tasks'
           /\ OwnerGet(t.user_id, t.id, tasks', id_seq', clock') = TaskResponse(HTTP_200_OK, t)]_vars

\* C3 witness: a DELETE addressed a task of another user, which is still there.
C3_Witness ==
  /\ ForeignTask
  /\ last.req.op = "delete"
  /\ last.req.user_id = last.caller
  /\ last.resp.status = HTTP_404_NOT_FOUND

\* C4 as stated: whenever the verified subject differs from the path user_id
\* the request fails with 403 and has executed no datastore statement.
C4_Original ==
  (Authenticated /\ last.caller # last.req.user_id) =>
    (last.resp.status = HTTP_403_FORBIDDEN /\ last.stmts = 0)

\* The part of C4 the code keeps: a request whose subject differs from the
\* path user_id executes no datastore statement.
C4_NoStatementOnMismatch ==
  (Authenticated /\ last.caller # last.req.user_id) =>
    (last.stmts = 0 /\ last.resp.status \in {HTTP_403_FORBIDDEN, HTTP_422_UNPROCESSABLE_ENTITY})

\* The header has the form "Bearer <token>" (the scheme in any letter case)
BearerForm(h) ==
  /\ h.kind = "text"
  /\ Len(h.words) = 2
  /\ h.words[1].text \in {"Bearer", "bearer", "BEARER"}

\* One of the causes C5 lists holds of header h at clock value at
RejectCause(h, at) ==
  \/ ~BearerForm(h)
  \/ LET t == h.words[2].jwt IN
       \/ t = NoJwt
       \/ ~t.sig_ok
       \/ t.alg # "RS256"
       \/ at - t.exp > LEEWAY
       \/ \E c \in {"sub", "exp", "iat"} : c \notin t.claims
       \/ t.kid \notin PublishedKids

AllHeaders == OddHeaders \cup GoodHeaders

\* C6: every 401 is the same response, whatever made verification fail.
C6_SameUnauthenticated ==
  (Served /\ last.resp.status = HTTP_401_UNAUTHORIZED) =>
    \A h \in AllHeaders, kf \in {"ok", "error"} :
      LET a == get_current_user(h, kf, clock) IN ~a.ok => a.resp = last.resp

\* C6 witness: a 401 caused by a failed key set retrieval.
C6_Witness ==
  /\ Served
  /\ last.req.key_fetch = "error"
  /\ last.resp.status = HTTP_401_UNAUTHORIZED

\* C7: the response to a get, PUT, PATCH or DELETE of an authenticated user
\* on their own path does not depend on the tasks of other users: it is the
\* same whether the addressed id is missing or belongs to somebody else.
C7_ForeignLikeMissing ==
  [][(last'.req.op \in IdOps /\ last'.caller # "" /\ last'.caller = last'.req.user_id) =>
       \A X \in SUBSET {t \in tasks : t.user_id # last'.caller} :
         Route(last'.req, tasks \ X, id_seq, clock).resp = last'.resp]_vars

\* C7 witness: a get on the caller's own path for the id of another user's
\* task is answered exactly like a missing task.
C7_Witness ==
  /\ ForeignTask
  /\ last.req.op = "get"
  /\ last.req.user_id = last.caller
  /\ last.resp = TaskNotFound

CreatedTask == last.resp.data[1]
SuccessfulCreate == Served /\ last.req.op = "create" /\ last.resp.kind = "task"

\* C8: a successful create answers 201 with the stored task: user_id is the
\* path user_id, completed is false whatever the body says, description and
\* due_date are null and priority is medium when omitted, and the id is the
\* one the table assigned.
C8_CreateDefaults ==
  SuccessfulCreate =>
    /\ last.resp.status = HTTP_201_CREATED
    /\ CreatedTask \in tasks
    /\ CreatedTask.user_id = last.req.user_id
    /\ CreatedTask.completed = Bool(FALSE)
    /\ last.req.body.description = Unset => CreatedTask.description = Null
    /\ last.req.body.due_date = Unset => CreatedTask.due_date = Null
    /\ last.req.body.priority = Unset => CreatedTask.priority = Txt("medium")
    /\ CreatedTask.id = id_seq - 1
    /\ \A t \in tasks : t.id = CreatedTask.id => t = CreatedTask

\* C8 witness: a create whose body carried completed = true succeeded.
C8_Witness ==
  /\ SuccessfulCreate
  /\ last.req.body.completed = Bool(TRUE)
  /\ Cardinality(tasks) = MaxTasks

\* C9 as stated: a created task has created_at = updated_at.
C9_Original == SuccessfulCreate => CreatedTask.created_at = CreatedTask.updated_at

\* C10: every stored task has updated_at >= created_at.
C10_UpdatedNotBeforeCreated == \A t \in tasks : t.updated_at >= t.created_at

\* C10 witness: a PATCH succeeded on a task created earlier.
C10_Witness ==
  /\ Served
  /\ last.req.op = "patch"
  /\ last.resp.status = HTTP_200_OK
  /\ \E t \in tasks : t.id = last.req.task_id /\ t.updated_at > t.created_at

\* ------------------------------------------------- listing and deleting
\* A third specification of the same routes: alice and bob, each with a good
\* token on their own path, creating, listing, reading, replacing, patching
\* and deleting up to MaxListed tasks.
ListedIds(op) == IF op \in IdOps THEN 1 .. MaxListed ELSE {0}

\* Bodies with and without keys for the columns no schema declares
Meddling(body) == WithExtraKeys(body, "bob", MaxListed + 1, 0 - 1)

ListedBodies(op) ==
  CASE op = "create" -> {TitleOnly, Meddling(TitleOnly)}
    [] op = "put" -> {FullBody, Meddling(FullBody)}
    [] op = "patch" -> {Completed, Meddling(Completed)}
    [] OTHER -> {NoBody}

ListedRequests(op) ==
  UNION {RequestsWith(op, {Bearer(GoodJwt(u))}, {"ok"}, {u}, ListedIds(op),
                      ListedBodies(op), {0}) : u \in Users}

ServeListed(r) == ServeWithin(r, MaxListed, MaxListClock)

CreateTaskListed == Idle /\ \E r \in ListedRequests("create") : ServeListed(r)
ListTasksListed == Idle /\ \E r \in ListedRequests("list") : ServeListed(r)
GetTaskListed == Idle /\ \E r \in ListedRequests("get") : ServeListed(r)
UpdateTaskListed == Idle /\ \E r \in ListedRequests("put") : ServeListed(r)
PatchTaskListed == Idle /\ \E r \in ListedRequests("patch") : ServeListed(r)
DeleteTaskListed == Idle /\ \E r \in ListedRequests("delete") : ServeListed(r)

ListingNext ==
  \/ CreateTaskListed
  \/ ListTasksListed
  \/ GetTaskListed
  \/ UpdateTaskListed
  \/ PatchTaskListed
  \/ DeleteTaskListed
  \/ CloseSession

ListingSpec == Init /\ [][ListingNext]_vars

\* ------------------------------------------------- datastore failures
\* A fourth specification of the same routes: alice with a good token on her
\* own path, while the datastore may fail any one call of a request.
\* The most session calls a handler awaits: execute, commit, refresh
MaxSessionCalls == 3

FailingRequests(op) ==
  {Failing(r, k) :
     r \in RequestsWith(op, {Bearer(GoodJwt("alice"))}, {"ok"}, {"alice"}, PathIds(op),
                        ListedBodies(op), Gaps(op)),
     k \in 0 .. MaxSessionCalls}

CreateTaskFailing == Idle /\ \E r \in FailingRequests("create") : Serve(r)
ListTasksFailing == Idle /\ \E r \in FailingRequests("list") : Serve(r)
GetTaskFailing == Idle /\ \E r \in FailingRequests("get") : Serve(r)
UpdateTaskFailing == Idle /\ \E r \in FailingRequests("put") : Serve(r)
PatchTaskFailing == Idle /\ \E r \in FailingRequests("patch") : Serve(r)
DeleteTaskFailing == Idle /\ \E r \in FailingRequests("delete") : Serve(r)

FailingNext ==
  \/ CreateTaskFailing
  \/ ListTasksFailing
  \/ GetTaskFailing
  \/ UpdateTaskFailing
  \/ PatchTaskFailing
  \/ DeleteTaskFailing
  \/ CloseSession

FailingSpec == Init /\ [][FailingNext]_vars

\* ------------------------------------------------- key set service
\* A fifth specification: calls of the key set service, with time passing
\* between them and the endpoint answering or failing each remote call.
Kids == {"k1", "k2", "k9"}
Remotes == {HTTPError, Jwks({"k1"}), Jwks({"k1", "k2"})}
\* Time between two calls: just less than, exactly, just more than the TTL
Delays == {TTL - 1, TTL, TTL + 1}

Elapse ==
  /\ \E d \in Delays :
       /\ monotonic + d <= MaxMonotonic
       /\ monotonic' = monotonic + d
  /\ UNCHANGED <<tasks, id_seq, clock, last, jwks_cache, jwks_last, inflight>>

\* await jwks_service.fetch_jwks(force_refresh)
FetchJwks ==
  /\ \E force_refresh \in BOOLEAN, remote \in Remotes :
       LET f == fetch_jwks(force_refresh, jwks_cache, monotonic, remote) IN
         /\ jwks_cache' = f.cache
         /\ jwks_last' = [call |-> "fetch", force_refresh |-> force_refresh, kid |-> "",
                          remotes |-> <<remote>>, at |-> monotonic, raised |-> f.raised,
                          value |-> f.value, key |-> "", remote_calls |-> f.remote_calls,
                          forced |-> IF force_refresh THEN 1 ELSE 0]
  /\ UNCHANGED <<tasks, id_seq, clock, last, monotonic, inflight>>

\* await jwks_service.get_key_by_kid(kid)
GetKeyByKid ==
  /\ \E kid \in Kids, first \in Remotes, second \in Remotes :
       LET g == get_key_by_kid(kid, jwks_cache, monotonic, <<first, second>>) IN
         /\ jwks_cache' = g.cache
         /\ jwks_last' = [call |-> "lookup", force_refresh |-> FALSE, kid |-> kid,
                          remotes |-> <<first, second>>, at |-> monotonic,
                          raised |-> g.raised, value |-> g.cache.jwks, key |-> g.key,
                          remote_calls |-> g.remote_calls, forced |-> g.forced]
  /\ UNCHANGED <<tasks, id_seq, clock, last, monotonic, inflight>>

JwksNext ==
  \/ Elapse
  \/ FetchJwks
  \/ GetKeyByKid

JwksSpec == Init /\ [][JwksNext]_vars

\* ------------------------------------------------- concurrent requests
\* Sixth specification: PUT, PATCH and DELETE requests of one owner served
\* concurrently, one await at a time.

RaceIds == 1 .. MaxRaceTasks

RaceRequests ==
  {Request(op, Bearer(GoodJwt("alice")), "ok", "alice", id, b, 0) :
     op \in {"put"}, id \in RaceIds, b \in {FullBody}}
  \cup {Request(op, Bearer(GoodJwt("alice")), "ok", "alice", id, b, 0) :
     op \in {"patch"}, id \in RaceIds, b \in {Completed, TitleOnly}}
  \cup {Request(op, Bearer(GoodJwt("alice")), "ok", "alice", id, b, 0) :
     op \in {"delete"}, id \in RaceIds, b \in {NoBody}}

\* POST, served between two awaits of the other requests
CreateTaskRacing ==
  /\ LET o == Route(Request("create", Bearer(GoodJwt("alice")), "ok", "alice", 0, TitleOnly, 0),
                    tasks, id_seq, clock)
     IN /\ clock <= MaxRaceClock
        /\ o.next_id <= MaxRaceTasks + 1
        /\ tasks' = o.rows
        /\ id_seq' = o.next_id
        /\ clock' = o.now
  /\ UNCHANGED <<last, jwks_cache, monotonic, jwks_last, inflight>>

\* A request arrives and runs to the return of its first await
Execute ==
  /\ \E w \in Workers, r \in RaceRequests :
       LET f == session_execute(r, tasks, clock) IN
         /\ inflight[w].pc = "free"
         /\ clock <= MaxRaceClock
         /\ inflight' = [inflight EXCEPT ![w] = f]
         /\ clock' = clock + f.stmts
  /\ UNCHANGED <<tasks, id_seq, last, jwks_cache, monotonic, jwks_last>>

Commit ==
  /\ \E w \in Workers :
       LET c == session_commit(inflight[w], tasks) IN
         /\ inflight[w].pc = "commit"
         /\ inflight' = [inflight EXCEPT ![w] = c.flight]
         /\ tasks' = c.rows
  /\ clock' = clock + 1
  /\ UNCHANGED <<id_seq, last, jwks_cache, monotonic, jwks_last>>

Refresh ==
  /\ \E w \in Workers :
       /\ inflight[w].pc = "refresh"
       /\ inflight' = [inflight EXCEPT ![w] = session_refresh(inflight[w], tasks)]
  /\ clock' = clock + 1
  /\ UNCHANGED <<tasks, id_seq, last, jwks_cache, monotonic, jwks_last>>

\* The response is sent and the request scope ends (get_session closes)
Respond ==
  /\ \E w \in Workers :
       /\ inflight[w].pc = "done"
       /\ inflight' = [inflight EXCEPT ![w] = Free]
  /\ UNCHANGED <<tasks, id_seq, clock, last, jwks_cache, monotonic, jwks_last>>

RaceNext ==
  \/ CreateTaskRacing
  \/ Execute
  \/ Commit
  \/ Refresh
  \/ Respond

RaceSpec == Init /\ [][RaceNext]_vars

\* ------------------------------------------------ field-level properties
\* The request served by this step comes from the verified owner of its path
OwnPath(r, caller) == caller # "" /\ caller = r.user_id

\* The task a 200 or 201 response carries
Answered(resp) == resp.data[1]
Succeeded(resp) == resp.status \in {HTTP_200_OK, HTTP_201_CREATED} /\ resp.kind = "task"

\* A create body the claim C11 lists: title missing, empty, whitespace-only
\* or longer than 500 characters, or description longer than 5000 characters
ListedAsRejected(b) ==
  \/ b.title = Unset
  \/ IsStr(b.title) /\ (b.title.v.core = 0 \/ StrLen(b.title) > TITLE_MAX_LENGTH)
  \/ IsStr(b.description) /\ StrLen(b.description) > DESCRIPTION_MAX_LENGTH

\* C11 as stated: a create request whose title is missing, empty,
\* whitespace-only or longer than 500 characters, or whose description is
\* longer than 5000 characters, is rejected with status 400 and stores no task.
C11_Original ==
  [][(last'.req.op = "create" /\ OwnPath(last'.req, last'.caller)
       /\ ListedAsRejected(last'.req.body)) =>
       (last'.resp.status = HTTP_400_BAD_REQUEST /\ tasks' = tasks)]_vars

\* C11, the part the code keeps: such a request is rejected by the
\* framework's validation answer (422), executes no datastore statement and
\* stores no task.
C11_RejectedNothingStored ==
  [][(last'.req.op = "create" /\ OwnPath(last'.req, last'.caller)
       /\ ListedAsRejected(last'.req.body)) =>
       (last'.resp = RequestValidationError /\ last'.stmts = 0 /\ tasks' = tasks
        /\ id_seq' = id_seq)]_vars

\* C12: every stored task has a title that is non-empty, carries no leading
\* or trailing whitespace and is at most 500 characters long, and a priority
\* that is exactly low, medium or high in lowercase.
C12_StoredTitleAndPriority ==
  \A t \in tasks :
    /\ IsStr(t.title)
    /\ StrLen(t.title) >= 1
    /\ t.title.v.lead = 0 /\ t.title.v.trail = 0
    /\ StrLen(t.title) <= TITLE_MAX_LENGTH
    /\ t.priority.k = "txt"
    /\ t.priority.v \in AllowedPriorities

\* C12 witness: a PATCH with an explicit null title has been served while a
\* task is stored whose priority came from mixed-case input.
C12_Witness ==
  /\ last.req.op = "patch"
  /\ last.req.body.title = Null
  /\ last.resp.status = HTTP_500_INTERNAL_SERVER_ERROR
  /\ \E t \in tasks : t.id = last.req.task_id /\ t.priority = Txt("low")
                      /\ t.title = Str(0, TITLE_MAX_LENGTH - 1, 0)

\* A title with whitespace around content of 1 to 500 characters
Padded(x) ==
  /\ IsStr(x)
  /\ x.v.lead + x.v.trail > 0
  /\ x.v.core >= 1 /\ x.v.core <= TITLE_MAX_LENGTH

\* The same request with a plain title in place of its own
PlainTitled(r) == [r EXCEPT !.body.title = Roomy]

\* C13 as stated: create, PUT and PATCH accept every title that has leading
\* or trailing whitespace around content of 1 to 500 characters (the request
\* being one that succeeds with a plain title) and store the title trimmed.
C13_Original ==
  [][(last'.req.op \in BodyOps /\ Padded(last'.req.body.title)
       /\ Succeeded(Route(PlainTitled(last'.req), tasks, id_seq, clock).resp)) =>
       /\ Succeeded(last'.resp)
       /\ Answered(last'.resp).title = Strip(last'.req.body.title)
       /\ Answered(last'.resp) \in tasks']_vars

\* C13, the part the code keeps: such a title is accepted and stored trimmed
\* when the text as sent, whitespace included, is at most 500 characters.
C13_PaddedWithinLimit ==
  [][(last'.req.op \in BodyOps /\ Padded(last'.req.body.title)
       /\ StrLen(last'.req.body.title) <= TITLE_MAX_LENGTH
       /\ Succeeded(Route(PlainTitled(last'.req), tasks, id_seq, clock).resp)) =>
       /\ Succeeded(last'.resp)
       /\ Answered(last'.resp).title = Strip(last'.req.body.title)
       /\ Answered(last'.resp) \in tasks']_vars

\* A create request of the path's owner whose body is accepted once its
\* priority key is left out
CreateButPriority ==
  /\ last.req.op = "create"
  /\ OwnPath(last.req, last.caller)
  /\ TaskCreate(Without(last.req.body, "priority")).ok

\* C14 as stated: on create a priority in any letter case of low, medium or
\* high is accepted and stored in lowercase, any other text is rejected with
\* 400, and an omitted priority is stored as medium.
C14_Original ==
  CreateButPriority =>
    LET p == last.req.body.priority IN
      /\ (p.k = "txt" /\ Lower(p.v) \in AllowedPriorities) =>
           (Succeeded(last.resp) /\ Answered(last.resp).priority = Txt(Lower(p.v)))
      /\ (p.k = "txt" /\ Lower(p.v) \notin AllowedPriorities) =>
           last.resp.status = HTTP_400_BAD_REQUEST
      /\ p = Unset =>
           (Succeeded(last.resp) /\ Answered(last.resp).priority = Txt("medium"))

\* C14, the part the code keeps: the same with the framework's validation
\* answer (422) for any other text.
C14_PriorityOnCreate ==
  CreateButPriority =>
    LET p == last.req.body.priority IN
      /\ (p.k = "txt" /\ Lower(p.v) \in AllowedPriorities) =>
           (Succeeded(last.resp) /\ Answered(last.resp).priority = Txt(Lower(p.v)))
      /\ (p.k = "txt" /\ Lower(p.v) \notin AllowedPriorities) =>
           (last.resp = RequestValidationError /\ last.stmts = 0)
      /\ p = Unset =>
           (Succeeded(last.resp) /\ Answered(last.resp).priority = Txt("medium"))

\* The row the request of this step addresses, as it is before the step
Addressed(r, rows) == SelectTask(rows, r.task_id, r.user_id)

\* C15: a successful PATCH leaves every field its body does not carry, and
\* the task's id, user_id and created_at, as they were before the request
\* (and leaves every other row alone).
C15_PatchFrame ==
  [][(last'.req.op = "patch" /\ Succeeded(last'.resp)) =>
       \E old \in Addressed(last'.req, tasks) :
         LET new == Answered(last'.resp) IN
           /\ new \in tasks'
           /\ tasks' \ {new} = tasks \ {old}
           /\ \A f \in (BodyKeys \ FieldsSet(last'.req.body)) \cup {"id", "user_id", "created_at"} :
                new[f] = old[f]]_vars

\* C15 witness: a PATCH of description and due_date has succeeded on a task
\* whose title, completed flag and priority are not the defaults.
C15_Witness ==
  /\ last.req.op = "patch"
  /\ Succeeded(last.resp)
  /\ FieldsSet(last.req.body) = {"description", "due_date"}
  /\ Answered(last.resp).description = Roomy
  /\ Answered(last.resp).completed = Bool(TRUE)
  /\ Answered(last.resp).priority = Txt("high")
  /\ Answered(last.resp) \in tasks

\* C16: every successful PATCH, whatever keys its body carries (none
\* included), leaves updated_at strictly greater than it was.
C16_PatchRefreshes ==
  [][(last'.req.op = "patch" /\ Succeeded(last'.resp)) =>
       \E old \in Addressed(last'.req, tasks) :
         /\ Answered(last'.resp).updated_at > old.updated_at
         /\ \E new \in tasks' : new.id = old.id /\ new.updated_at > old.updated_at]_vars

\* C16 witness: a PATCH whose body carries no key has succeeded.
C16_Witness ==
  /\ last.req.op = "patch"
  /\ last.req.body = NoBody
  /\ Succeeded(last.resp)
  /\ Answered(last.resp).updated_at > Answered(last.resp).created_at + 1

\* C17 as stated: a PUT of an existing task whose body omits any one of
\* title, description, completed, priority, due_date is rejected with 400 and
\* leaves the stored task unchanged.
C17_Original ==
  [][(last'.req.op = "put" /\ OwnPath(last'.req, last'.caller)
       /\ Addressed(last'.req, tasks) # {}
       /\ BodyKeys \ FieldsSet(last'.req.body) # {}) =>
       (last'.resp.status = HTTP_400_BAD_REQUEST /\ tasks' = tasks)]_vars

\* C17 with the status left open between 400 and the framework's 422: a PUT
\* of an existing task whose body omits any one of the five keys is rejected
\* and leaves the stored task unchanged.
C17_OmittedKeyRejected ==
  [][(last'.req.op = "put" /\ OwnPath(last'.req, last'.caller)
       /\ Addressed(last'.req, tasks) # {}
       /\ BodyKeys \ FieldsSet(last'.req.body) # {}) =>
       (last'.resp.status \in {HTTP_400_BAD_REQUEST, HTTP_422_UNPROCESSABLE_ENTITY}
        /\ tasks' = tasks)]_vars

\* C17, the part the code keeps: a PUT whose body omits title or completed
\* is rejected by the framework's validation answer (422) and leaves the
\* table unchanged.
C17_RequiredKeys ==
  [][(last'.req.op = "put" /\ OwnPath(last'.req, last'.caller)
       /\ {"title", "completed"} \ FieldsSet(last'.req.body) # {}) =>
       (last'.resp = RequestValidationError /\ last'.stmts = 0 /\ tasks' = tasks)]_vars

\* C18: a successful PUT sets title, description, completed, priority and
\* due_date of the addressed task to the validated request values (title
\* trimmed, priority lowercased, an absent optional key as its default),
\* refreshes updated_at, and leaves id, user_id and created_at unchanged.
C18_PutReplaces ==
  [][(last'.req.op = "put" /\ Succeeded(last'.resp)) =>
       \E old \in Addressed(last'.req, tasks) :
         LET new == Answered(last'.resp)
             b == last'.req.body
         IN /\ new \in tasks'
            /\ tasks' \ {new} = tasks \ {old}
            /\ new.title = Strip(b.title)
            /\ new.description = (IF b.description = Unset THEN Null ELSE b.description)
            /\ new.completed = b.completed
            /\ new.priority = (IF b.priority = Unset THEN Txt("medium")
                               ELSE Txt(Lower(b.priority.v)))
            /\ new.due_date = (IF b.due_date = Unset THEN Null ELSE b.due_date)
            /\ new.updated_at > old.updated_at
            /\ new.id = old.id /\ new.user_id = old.user_id
            /\ new.created_at = old.created_at]_vars

\* C18 witness: a PUT with a null description and a null due_date has
\* succeeded and the stored task carries the request values.
C18_Witness ==
  /\ last.req.op = "put"
  /\ Succeeded(last.resp)
  /\ last.req.body = Body(Roomy, Null, Bool(FALSE), Txt("Medium"), Null)
  /\ Answered(last.resp).description = Null
  /\ Answered(last.resp).priority = Txt("medium")
  /\ Answered(last.resp) \in tasks

\* ------------------------------------------------ listing properties
Ids(rows) == {t.id : t \in rows}

\* The ids the table has issued and no row holds any more
Removed(rows, next_id) == {i \in 1 .. (next_id - 1) : i \notin Ids(rows)}

\* C19: the first DELETE of an existing task by its owner returns 204 with an
\* empty body and removes the task; from then on the id stays without a row,
\* a DELETE or a get of it by any user on their own path returns 404, and a
\* list does not contain it.
C19_DeleteThenGone ==
  [][/\ (last'.req.op = "delete" /\ OwnPath(last'.req, last'.caller)
          /\ Addressed(last'.req, tasks) # {}) =>
          /\ last'.resp = EmptyResponse(HTTP_204_NO_CONTENT)
          /\ tasks' = tasks \ Addressed(last'.req, tasks)
          /\ last'.req.task_id \in Removed(tasks', id_seq')
     /\ Removed(tasks, id_seq) \subseteq Removed(tasks', id_seq')
     /\ (last'.req.op \in {"get", "delete"} /\ OwnPath(last'.req, last'.caller)
          /\ last'.req.task_id \in Removed(tasks, id_seq)) =>
          (last'.resp = TaskNotFound /\ tasks' = tasks)
     /\ last'.req.op = "list" =>
          \A t \in Returned(last'.resp) : t.id \notin Removed(tasks, id_seq)]_vars

\* C19 witness: a DELETE of an id that was deleted before has been answered
\* with 404 after a later task was created.
C19_Witness ==
  /\ last.req.op = "delete"
  /\ last.resp = TaskNotFound
  /\ OwnPath(last.req, last.caller)
  /\ last.req.task_id \in Removed(tasks, id_seq)
  /\ last.req.task_id = 1
  /\ \E t \in tasks : t.id > 1 /\ t.user_id = last.caller

\* C20: list for user U returns exactly the stored tasks whose user_id is U,
\* each once, in order of created_at descending.
C20_ListOwnNewestFirst ==
  (last.req.op = "list" /\ last.resp.status = HTTP_200_OK) =>
    LET d == last.resp.data
        own == {t \in tasks : t.user_id = last.req.user_id}
    IN /\ last.req.user_id = last.caller
       /\ Returned(last.resp) = own
       /\ Len(d) = Cardinality(own)
       /\ \A i, j \in 1 .. Len(d) : i < j => d[i].created_at >= d[j].created_at

\* C20 witness: a list has returned two tasks of its user, the newer first,
\* while the other user has a task too.
C20_Witness ==
  /\ last.req.op = "list"
  /\ last.resp.status = HTTP_200_OK
  /\ Len(last.resp.data) = 2
  /\ last.resp.data[1].created_at > last.resp.data[2].created_at
  /\ last.resp.data[1].id > last.resp.data[2].id + 1
  /\ \E t \in tasks : t.user_id # last.req.user_id

\* C21: no create, PUT, PATCH or DELETE request, whatever keys its body
\* carries, changes the id, user_id or created_at of an existing task: after
\* every step each task that was stored is either still stored under the
\* same id, user_id and created_at, or was removed by a DELETE of its id.
C21_IdentityFixed ==
  [][\A t \in tasks :
       \/ \E u \in tasks' : u.id = t.id /\ u.user_id = t.user_id
                            /\ u.created_at = t.created_at
       \/ /\ last'.req.op = "delete"
          /\ last'.req.task_id = t.id
          /\ \A u \in tasks' : u.id # t.id]_vars

\* C21 witness: a PATCH whose body carries user_id, id and created_at keys
\* has succeeded on a task of alice.
C21_Witness ==
  /\ last.req.op = "patch"
  /\ Succeeded(last.resp)
  /\ last.req.body = Meddling(Completed)
  /\ last.caller = "alice"
  /\ Answered(last.resp).user_id = "alice"
  /\ Answered(last.resp).completed = Bool(TRUE)
  /\ Answered(last.resp) \in tasks

\* ------------------------------------------------ error-path properties
\* C25: every request that ends with 400, 401, 403 or 404 has issued no
\* mutating datastore statement, and the stored tasks with all their fields
\* are the same after the request as before it.
C25_ClientErrorNoChange ==
  [][(last'.req.op # "none"
       /\ last'.resp.status \in {HTTP_400_BAD_REQUEST, HTTP_401_UNAUTHORIZED,
                                 HTTP_403_FORBIDDEN, HTTP_404_NOT_FOUND}) =>
       (last'.writes = 0 /\ tasks' = tasks /\ id_seq' = id_seq)]_vars

\* C25 witness: a PUT of an id without a row has been answered 404 after its
\* select, while the table holds tasks.
C25_Witness ==
  /\ last.req.op = "put"
  /\ last.resp = TaskNotFound
  /\ last.stmts = 1
  /\ last.writes = 0
  /\ tasks # {}

\* A request whose header is "Bearer <token>" with a decodable token
CarriesJwt(r) == BearerForm(r.authorization) /\ r.authorization.words[2].jwt # NoJwt

\* C27 as stated: when verification needs the key set and retrieving it
\* fails with nothing cached, the request is answered 500.
C27_Original ==
  (Served /\ CarriesJwt(last.req) /\ last.req.key_fetch = "error") =>
    last.resp.status = HTTP_500_INTERNAL_SERVER_ERROR

\* C27, what the code does: such a request is answered with the same 401 as
\* every other verification failure, without a datastore statement.
C27_KeyFetchFailureUnauthenticated ==
  (Served /\ CarriesJwt(last.req) /\ last.req.key_fetch = "error") =>
    /\ last.resp = HTTPException(HTTP_401_UNAUTHORIZED, "Not authenticated", WWWAuthenticate)
    /\ last.stmts = 0

\* A token with no defect other than, possibly, its expiry
GoodButExpiry(t, key_fetch) ==
  /\ key_fetch = "ok"
  /\ t.kid \in PublishedKids
  /\ t.alg = "RS256"
  /\ t.sig_ok
  /\ {"sub", "exp", "iat"} \subseteq t.claims
  /\ t.sub # ""

\* C28: a token is rejected with 401 whenever the clock is more than 30
\* seconds past its exp claim, and is not rejected for expiry whenever the
\* clock is less than 30 seconds past its exp claim.
C28_ExpiryLeeway ==
  (Served /\ CarriesJwt(last.req)) =>
    LET t == last.req.authorization.words[2].jwt IN
      /\ last.at > t.exp + LEEWAY =>
           (last.resp.status = HTTP_401_UNAUTHORIZED /\ last.caller = "")
      /\ (last.at < t.exp + LEEWAY /\ GoodButExpiry(t, last.req.key_fetch)) =>
           (last.caller = t.sub /\ last.resp.status # HTTP_401_UNAUTHORIZED)

\* C28 witness: a token 29 seconds past its exp claim has been accepted.
C28_Witness ==
  /\ Served
  /\ CarriesJwt(last.req)
  /\ last.at = last.req.authorization.words[2].jwt.exp + LEEWAY - 1
  /\ last.at > last.req.authorization.words[2].jwt.exp
  /\ last.caller = "alice"
  /\ last.resp.status # HTTP_401_UNAUTHORIZED

\* The keys of the NOT NULL columns for which body b carries an explicit null
NullsSupplied(b) == {f \in {"title", "completed", "priority"} : b[f] = Null}

\* C29: a PATCH of an existing task whose body supplies an explicit null for
\* title, completed or priority stores no null: the request is not answered
\* as a success and the table, the addressed task with its title, completed
\* and priority included, is the same after the request as before it.
C29_NullNotStored ==
  [][(last'.req.op = "patch" /\ OwnPath(last'.req, last'.caller)
       /\ NullsSupplied(last'.req.body) # {}
       /\ Addressed(last'.req, tasks) # {}) =>
       /\ ~Succeeded(last'.resp)
       /\ last'.resp.status # HTTP_200_OK
       /\ tasks' = tasks
       /\ \A t \in tasks' : t.title # Null /\ t.completed # Null /\ t.priority # Null]_vars

\* C29 witness: a PATCH with an explicit null for completed has been answered
\* 500 and the addressed task still has its completed flag.
C29_Witness ==
  /\ last.req.op = "patch"
  /\ last.req.body.completed = Null
  /\ last.resp = InternalServerError
  /\ \E t \in tasks : t.id = last.req.task_id /\ t.completed = Bool(TRUE)

\* ------------------------------------------------ failure properties
\* The request served by this step had one of its datastore calls fail
CallFailed(l) == l.req.fault >= 1 /\ l.req.fault <= l.stmts

MutatingOps == {"create", "put", "patch", "delete"}

\* C26 as stated: whenever a datastore call fails at any point of a create,
\* PUT, PATCH or DELETE request, the response is 500 with the generic message
\* and the stored tasks are the same after the request as before it.
C26_Original ==
  [][(last'.req.op \in MutatingOps /\ CallFailed(last')) =>
       (last'.resp = InternalServerError /\ tasks' = tasks)]_vars

\* C26, the part the code keeps: the response is 500 with the generic
\* message, and the stored tasks are unchanged when the failing call is the
\* select or the commit (every call but the refresh that follows the commit).
C26_FailureAnswered ==
  [][(last'.req.op \in MutatingOps /\ CallFailed(last')) =>
       /\ last'.resp = InternalServerError
       /\ (last'.req.fault < (IF last'.req.op = "create" THEN 2 ELSE 3)) => tasks' = tasks]_vars

\* ------------------------------------------------ key set properties
\* This step is a call of the key set service (no time passes in it)
CallStep == monotonic' = monotonic /\ jwks_last'.call # "none"

\* The remote call of the fetch_jwks call made by this step failed
RemoteFailed(l) ==
  CallStep /\ l.call = "fetch" /\ l.remote_calls = 1 /\ l.remotes[1] = HTTPError

\* C22 as stated: when a fetch is attempted after the cached entry's
\* time-to-live has expired and the remote call fails, the previously fetched
\* key set is returned instead of raising; when no key set was ever fetched
\* and the remote call fails, the failure is propagated.
C22_Original ==
  [][RemoteFailed(jwks_last') =>
       /\ (jwks_cache.set /\ monotonic > jwks_cache.expires) =>
            (~jwks_last'.raised /\ jwks_last'.value = jwks_cache.jwks)
       /\ ~jwks_cache.set => jwks_last'.raised]_vars

\* C22, what the code does: when the remote call fails, the cached key set
\* is returned only if its entry has not expired (a forced refresh within
\* the time-to-live); after expiry, and when nothing was ever fetched, the
\* failure is propagated.
C22_FallbackOnlyWhileFresh ==
  [][RemoteFailed(jwks_last') =>
       /\ (jwks_cache.set /\ monotonic < jwks_cache.expires) =>
            (~jwks_last'.raised /\ jwks_last'.value = jwks_cache.jwks)
       /\ (jwks_cache.set /\ monotonic >= jwks_cache.expires) => jwks_last'.raised
       /\ ~jwks_cache.set => jwks_last'.raised
       /\ jwks_cache' = jwks_cache]_vars

\* C23: within 3600 seconds of a successful fetch a non-forced get returns
\* the cached key set without a remote call; once 3600 seconds have passed
\* since that fetch the next get makes a remote call and, when it succeeds,
\* replaces the cached key set.
C23_CachedWithinTtl ==
  [][(CallStep /\ jwks_last'.call = "fetch" /\ ~jwks_last'.force_refresh
       /\ jwks_cache.set) =>
       LET fetched_at == jwks_cache.expires - TTL IN
         /\ monotonic - fetched_at < TTL =>
              /\ jwks_last'.remote_calls = 0
              /\ ~jwks_last'.raised
              /\ jwks_last'.value = jwks_cache.jwks
              /\ jwks_cache' = jwks_cache
         /\ monotonic - fetched_at >= TTL =>
              /\ jwks_last'.remote_calls = 1
              /\ jwks_last'.remotes[1] # HTTPError =>
                   /\ jwks_last'.value = jwks_last'.remotes[1]
                   /\ jwks_cache'.set
                   /\ jwks_cache'.jwks = jwks_last'.remotes[1]
                   /\ jwks_cache'.expires = monotonic + TTL]_vars

\* C23 witness: 3599 seconds after the fetch a non-forced get has returned
\* the cached key set without a remote call, although the endpoint holds a
\* different one.
C23_Witness ==
  /\ jwks_last.call = "fetch"
  /\ ~jwks_last.force_refresh
  /\ jwks_last.at = TTL - 1
  /\ jwks_cache.expires = TTL
  /\ jwks_last.remote_calls = 0
  /\ jwks_last.value = Jwks({"k1"})
  /\ jwks_last.remotes = <<Jwks({"k1", "k2"})>>

\* C24: a key lookup searches the cached key set first; only if the key id
\* is absent does it force one fresh fetch and search again; if the key id
\* is still absent no key is returned.  No lookup forces more than one
\* refresh.
C24_LookupRefreshesOnce ==
  [][(CallStep /\ jwks_last'.call = "lookup") =>
       LET l == jwks_last'
           cached == jwks_cache.set /\ monotonic < jwks_cache.expires
           searched == IF cached THEN jwks_cache.jwks ELSE l.remotes[1]
       IN /\ l.forced <= 1
          /\ l.remote_calls <= 2
          /\ (cached /\ l.kid \in jwks_cache.jwks.keys) =>
               (l.key = l.kid /\ l.remote_calls = 0 /\ l.forced = 0 /\ ~l.raised)
          /\ l.forced = 1 => (searched # HTTPError /\ l.kid \notin searched.keys)
          /\ (l.forced = 0 /\ ~l.raised) => l.key = l.kid
          /\ l.key # "" => (l.key = l.kid /\ l.kid \in jwks_cache'.jwks.keys)
          /\ (~l.raised /\ l.key = "") =>
               (l.forced = 1 /\ l.kid \notin jwks_cache'.jwks.keys)]_vars

\* C24 witness: a lookup of a key id absent from the cached key set has
\* found it after one forced refresh.
C24_Witness ==
  /\ jwks_last.call = "lookup"
  /\ jwks_last.kid = "k2"
  /\ jwks_last.key = "k2"
  /\ jwks_last.forced = 1
  /\ jwks_last.remote_calls = 1
  /\ jwks_last.at > 0

\* ------------------------------------------------ concurrency properties
\* A PUT or PATCH in flight whose loaded row is no longer in the table: it
\* read the task before a DELETE of it committed
ReadBeforeDelete(f, rows) ==
  /\ f.pc \in {"commit", "refresh"}
  /\ f.req.op \in {"put", "patch"}
  /\ f.task.id \notin Ids(rows)

\* C30: under any interleaving of concurrent requests on one task, once a
\* DELETE of the task has committed, no step of any request makes a task
\* with that id exist again, and a PUT or PATCH that read the task before
\* the delete and finishes after it is answered 500, never 200 with a task.
C30_DeleteWinsRace ==
  [][/\ \A i \in Removed(tasks, id_seq) : i \notin Ids(tasks')
     /\ \A w \in Workers :
          ReadBeforeDelete(inflight[w], tasks) =>
            /\ inflight[w].task.id \notin Ids(tasks')
            /\ inflight'[w].pc = "done" =>
                 /\ inflight'[w].resp.status = HTTP_500_INTERNAL_SERVER_ERROR
                 /\ inflight'[w].resp.kind # "task"]_vars

\* A DELETE answered 204 and a PUT or PATCH of the same task that loaded
\* the row, issued its UPDATE after the delete and was answered 500, with
\* no row of that id in the table.
C30_Witness ==
  \E w \in Workers, v \in Workers :
    /\ inflight[w].pc = "done" /\ inflight[w].req.op \in {"put", "patch"}
    /\ inflight[w].task # NoTask /\ inflight[w].stmts = 2
    /\ inflight[w].resp.status = HTTP_500_INTERNAL_SERVER_ERROR
    /\ inflight[v].pc = "done" /\ inflight[v].req.op = "delete"
    /\ inflight[v].task.id = inflight[w].task.id
    /\ inflight[v].resp.status = HTTP_204_NO_CONTENT
    /\ inflight[w].task.id \notin Ids(tasks)

====
